---- MODULE Spec2Model ----
(***************************************************************************)
(* Realtime whiteboard: the relay (chat_server/src/server.ts), the wire   *)
(* messages (shared/types/messages.ts) and the client's stroke collection *)
(* (frontend/src/contexts/WhiteboardContext.tsx, hooks/useWebSocket.ts).  *)
(***************************************************************************)
EXTENDS Integers, Sequences, FiniteSets, TLC

(* ------------------------------ bounds -------------------------------- *)

\* number of 'message' events the relay handles in one run
MaxMsgs == 2

\* number of calls of the provider's operations in one run
MaxOps == 4

\* browser tabs that may connect
Clients == {"c1", "c2"}

(* ------------------------- wire values (JSON) ------------------------- *)

\* Stroke of shared/types/messages.ts; points are abstracted to one offset x
Stroke(id, x) == [id |-> id, x |-> x]

StrokeAdd(s) == [type |-> "stroke:add", payload |-> [stroke |-> s]]
StrokeRemove(id) == [type |-> "stroke:remove", payload |-> [strokeId |-> id]]
StrokeMove(id, dx) == [type |-> "stroke:move", payload |-> [strokeId |-> id, dx |-> dx]]
BoardClear(u) == [type |-> "board:clear", payload |-> [userId |-> u]]
ChatMessage(u, m) == [type |-> "chat:message", payload |-> [userId |-> u, username |-> "A", message |-> m]]
UserJoin(u) == [type |-> "user:join", payload |-> [userId |-> u, username |-> "A"]]
BoardSync(ss) == [type |-> "board:sync", payload |-> [strokes |-> ss, users |-> <<>>]]
ChatSync(h) == [type |-> "chat:sync", payload |-> [chatHistory |-> h]]

\* the tags of the Message union
RecognizedTypes ==
    {"stroke:add", "stroke:remove", "stroke:move", "board:clear",
     "chat:message", "user:join", "board:sync", "chat:sync"}

\* JS undefined (a missing property) and JSON null
Undefined == [undefined |-> TRUE]
Null == [null |-> TRUE]

\* a frame on the wire: text that is JSON (val = the value it denotes) or not
Text(v) == [json |-> TRUE, val |-> v]
NotJson == [json |-> FALSE, val |-> [text |-> "{not json"]]

\* JSON.stringify: an undefined array element is written as null
StringifyElem(e) == IF e = Undefined THEN Null ELSE e
StringifySeq(s) == [i \in 1..Len(s) |-> StringifyElem(s[i])]
StringifyBoardSync(ss) == Text(BoardSync(StringifySeq(ss)))
StringifyChatSync(h) == Text(ChatSync(StringifySeq(h)))

\* a parser that accepts any text
ParseOk_lenient(data) == TRUE

\* JSON.parse(data.toString()): throws on text that is not JSON
ParseOk(data) == data.json
Parse(data) == data.val

\* the frames clients put on the wire
Messages ==
    {StrokeAdd(Stroke("a", 0)), StrokeAdd(Stroke("b", 0)),
     StrokeRemove("a"), StrokeMove("a", 1), BoardClear("u1"),
     ChatMessage("u1", "hi"), UserJoin("u1"),
     BoardSync(<<>>),
     [type |-> "foo", payload |-> [userId |-> "u1"]]}

ClientFrames == {Text(m) : m \in Messages} \cup {NotJson}

\* JSON that is no message of the union: null, a stroke:add without payload, a
\* stroke:add whose payload has no stroke
IllFormedFrames ==
    {Text(Null), Text([type |-> "stroke:add"]),
     Text([type |-> "stroke:add", payload |-> [userId |-> "u1"]])}

(* ------------------------------- state -------------------------------- *)

VARIABLES
    up,          \* the relay process is running
    strokes,     \* server.ts `strokes` (BoardState)
    chatHistory, \* server.ts `chatHistory`
    readyState,  \* per client: "CLOSED" (not in wss.clients), "OPEN", "CLOSING"
    sent,        \* per client: the frames the relay sent on its current connection
    arrived,     \* every 'message' event so far: [from, data], in arrival order
    joinedAt,    \* per client: Len(arrived) when its current connection was made
    applied,     \* per client: how many frames of sent[c] its onmessage has handled
    cStrokes,    \* per client: state.strokes of whiteboardReducer
    capStrokes,  \* per client: state.strokes as captured by addStroke at the last render
    state,       \* one WhiteboardProvider: the state of whiteboardReducer
    rendered,    \* that provider: the state its callbacks captured at the last render
    isLoaded,    \* useWASM().isLoaded
    wasm,        \* the drawing engine's stroke store
    tasks,       \* the provider's operations suspended at an await
    op           \* the provider's last operation: [name, seq, arg]

vars == <<up, strokes, chatHistory, readyState, sent, arrived, joinedAt,
          applied, cStrokes, capStrokes, state, rendered, isLoaded, wasm, tasks, op>>

boardVars == <<state, rendered, isLoaded, wasm, tasks, op>>

relayVars == <<up, strokes, chatHistory, readyState, sent, arrived, joinedAt>>
clientVars == <<applied, cStrokes, capStrokes>>
netVars == <<up, strokes, chatHistory, readyState, sent, arrived, joinedAt,
             applied, cStrokes, capStrokes>>

\* eraserSize of initialState.settings
eraserSize == 10

\* null, for currentStroke
NoStroke == [none |-> TRUE]

\* initialState of the provider (the fields its operations read or write)
initialState ==
    [settings |-> [color |-> "rgb(0, 0, 0)", thickness |-> 2, eraserSize |-> eraserSize],
     activeTool |-> "stroke",
     currentStroke |-> NoStroke,
     strokes |-> <<>>,
     selectedStrokes |-> {},
     strokeUpdateTrigger |-> 0]

Init ==
    /\ up = TRUE
    /\ strokes = <<>>
    /\ chatHistory = <<>>
    /\ readyState = [c \in Clients |-> "CLOSED"]
    /\ sent = [c \in Clients |-> <<>>]
    /\ arrived = <<>>
    /\ joinedAt = [c \in Clients |-> 0]
    /\ applied = [c \in Clients |-> 0]
    /\ cStrokes = [c \in Clients |-> <<>>]
    /\ capStrokes = [c \in Clients |-> <<>>]
    /\ state = initialState
    /\ rendered = initialState
    /\ isLoaded = FALSE
    /\ wasm = <<>>
    /\ tasks = {}
    /\ op = [name |-> "none", seq |-> 0, arg |-> <<>>]

(* ------------------------------- relay -------------------------------- *)

\* msg.type; a value without the property reads as undefined
TypeOf(msg) == IF "type" \in DOMAIN msg THEN msg.type ELSE "undefined"
PayloadOf(msg) == IF "payload" \in DOMAIN msg THEN msg.payload ELSE Undefined
StrokeOf(payload) == IF "stroke" \in DOMAIN payload THEN payload.stroke ELSE Undefined

\* the handler throws a TypeError: msg.type of null, msg.payload.stroke of undefined
Throws(msg) ==
    \/ msg = Null
    \/ TypeOf(msg) = "stroke:add" /\ PayloadOf(msg) = Undefined

\* the stroke is put in front of the array instead of behind it
StrokesAfter_unshift(msg, ss) ==
    IF TypeOf(msg) = "stroke:add" THEN <<StrokeOf(PayloadOf(msg))>> \o ss ELSE ss

\* stroke:remove and board:clear are applied to the array too
StrokesAfter_symmetric(msg, ss) ==
    CASE TypeOf(msg) = "stroke:add" -> Append(ss, StrokeOf(PayloadOf(msg)))
      [] TypeOf(msg) = "stroke:remove" ->
            SelectSeq(ss, LAMBDA s : s.id # msg.payload.strokeId)
      [] TypeOf(msg) = "board:clear" -> <<>>
      [] OTHER -> ss

\* if (msg.type === 'stroke:add') strokes.push(msg.payload.stroke)
StrokesAfter(msg, ss) ==
    IF TypeOf(msg) = "stroke:add" THEN Append(ss, StrokeOf(PayloadOf(msg))) ELSE ss

\* the array is replaced by the new entry: only the latest one is kept
ChatAfter_latest(msg, h) ==
    IF TypeOf(msg) = "chat:message" THEN <<PayloadOf(msg)>> ELSE h

\* if (msg.type === 'chat:message') chatHistory.push(msg.payload)
ChatAfter(msg, h) ==
    IF TypeOf(msg) = "chat:message" THEN Append(h, PayloadOf(msg)) ELSE h

\* the readyState test is left out: every session of wss.clients is sent to
Receives_any(rs, c) == rs[c] # "CLOSED"

\* wss.clients.forEach(client => if (client.readyState === OPEN) client.send(data))
Receives(rs, c) == rs[c] = "OPEN"
\* the send is put off until the next message has been sent
Broadcast_deferred(rs, data, out) ==
    [c \in Clients |->
        IF ~Receives(rs, c) THEN out[c]
        ELSE IF Len(out[c]) >= 3
          THEN SubSeq(out[c], 1, Len(out[c]) - 1) \o <<data, out[c][Len(out[c])]>>
          ELSE Append(out[c], data)]

\* every session sent the message is sent an acknowledgment after it
Broadcast_ack(rs, data, out) ==
    [c \in Clients |->
        IF Receives(rs, c)
          THEN out[c] \o <<data, Text([type |-> "ack", payload |-> [userId |-> "relay"]])>>
          ELSE out[c]]

Broadcast(rs, data, out) ==
    [c \in Clients |-> IF Receives(rs, c) THEN Append(out[c], data) ELSE out[c]]

\* the snapshot is taken of the arrays without their newest element
Snapshot_stale(ss, h) ==
    <<StringifyBoardSync(SubSeq(ss, 1, Len(ss) - 1)), StringifyChatSync(SubSeq(h, 1, Len(h) - 1))>>

\* chat:sync is sent before board:sync
Snapshot_swapped(ss, h) == <<StringifyChatSync(h), StringifyBoardSync(ss)>>

\* the two frames sent to a new connection
Snapshot(ss, h) == <<StringifyBoardSync(ss), StringifyChatSync(h)>>

\* wss.on('connection')
Connection(c) ==
    /\ up
    /\ readyState[c] = "CLOSED"
    /\ readyState' = [readyState EXCEPT ![c] = "OPEN"]
    /\ sent' = [sent EXCEPT ![c] = Snapshot(strokes, chatHistory)]
    /\ joinedAt' = [joinedAt EXCEPT ![c] = Len(arrived)]
    /\ applied' = [applied EXCEPT ![c] = 0]
    /\ UNCHANGED <<up, strokes, chatHistory, arrived, cStrokes, capStrokes>>
    /\ UNCHANGED boardVars

\* ws.on('message'), run to completion
OnMessage(c, data) ==
    /\ up
    /\ readyState[c] = "OPEN"
    /\ Len(arrived) < MaxMsgs
    /\ arrived' = Append(arrived, [from |-> c, data |-> data])
    /\ IF ~ParseOk(data)
         THEN UNCHANGED <<up, strokes, chatHistory, readyState, sent>>
         ELSE IF Throws(Parse(data))
           THEN \* uncaught exception: the process exits
                /\ up' = FALSE
                /\ strokes' = <<>>
                /\ chatHistory' = <<>>
                /\ readyState' = [d \in Clients |-> "CLOSED"]
                /\ UNCHANGED sent
           ELSE /\ strokes' = StrokesAfter(Parse(data), strokes)
                /\ chatHistory' = ChatAfter(Parse(data), chatHistory)
                /\ sent' = Broadcast(readyState, data, sent)
                /\ UNCHANGED <<up, readyState>>
    /\ UNCHANGED <<joinedAt, applied, cStrokes, capStrokes>>
    /\ UNCHANGED boardVars

\* the client starts closing: the session stays in wss.clients, no longer OPEN
Closing(c) ==
    /\ readyState[c] = "OPEN"
    /\ readyState' = [readyState EXCEPT ![c] = "CLOSING"]
    /\ UNCHANGED <<up, strokes, chatHistory, sent, arrived, joinedAt>>
    /\ UNCHANGED clientVars
    /\ UNCHANGED boardVars

\* the board is emptied when a session leaves
Closed_reset(c) ==
    /\ readyState[c] = "CLOSING"
    /\ readyState' = [readyState EXCEPT ![c] = "CLOSED"]
    /\ strokes' = <<>>
    /\ UNCHANGED <<up, chatHistory, sent, arrived, joinedAt>>
    /\ UNCHANGED clientVars
    /\ UNCHANGED boardVars

\* the socket is gone: the session leaves wss.clients
Closed(c) ==
    /\ readyState[c] = "CLOSING"
    /\ readyState' = [readyState EXCEPT ![c] = "CLOSED"]
    /\ UNCHANGED <<up, strokes, chatHistory, sent, arrived, joinedAt>>
    /\ UNCHANGED clientVars
    /\ UNCHANGED boardVars

(* ------------------------------- client ------------------------------- *)

\* whiteboardReducer, case 'SET_STROKES'
SetStrokes(payload) == payload

\* addStroke: dispatch SET_STROKES [...state.strokes, stroke], state.strokes as captured
addStroke(captured, stroke) == SetStrokes(Append(captured, stroke))

\* setAllStrokes: dispatch SET_STROKES strokes
setAllStrokes(ss) == SetStrokes(ss)

\* local mutations keyed by id
RemoveById(ss, id) == SelectSeq(ss, LAMBDA s : s.id # id)
MoveById(ss, id, dx) ==
    [i \in 1..Len(ss) |-> IF ss[i].id = id THEN [ss[i] EXCEPT !.x = @ + dx] ELSE ss[i]]

\* the handler given to useWebSocket: what a received message does to state.strokes
ApplyMessage(msg, cur, captured) ==
    CASE msg.type = "board:sync" -> setAllStrokes(msg.payload.strokes)
      [] msg.type = "stroke:add" -> addStroke(captured, msg.payload.stroke)
      [] msg.type = "stroke:remove" -> RemoveById(cur, msg.payload.strokeId)
      [] msg.type = "stroke:move" -> MoveById(cur, msg.payload.strokeId, msg.payload.dx)
      [] msg.type = "board:clear" -> <<>>
      [] OTHER -> cur

\* ws.current.onmessage: try { onMessage(JSON.parse(event.data)) } catch { log }
ClientOnMessage(c) ==
    /\ readyState[c] = "OPEN"
    /\ applied[c] < Len(sent[c])
    /\ applied' = [applied EXCEPT ![c] = @ + 1]
    /\ LET data == sent[c][applied[c] + 1] IN
         cStrokes' = [cStrokes EXCEPT ![c] =
            IF ParseOk(data) THEN ApplyMessage(Parse(data), @, capStrokes[c]) ELSE @]
    /\ UNCHANGED capStrokes
    /\ UNCHANGED relayVars
    /\ UNCHANGED boardVars

\* the provider re-renders: addStroke is re-created over the current state.strokes
Render(c) ==
    /\ capStrokes[c] # cStrokes[c]
    /\ capStrokes' = [capStrokes EXCEPT ![c] = cStrokes[c]]
    /\ UNCHANGED <<applied, cStrokes>>
    /\ UNCHANGED relayVars
    /\ UNCHANGED boardVars

(* ------------------------ the whiteboard provider --------------------- *)

\* points are abstracted to one coordinate; the eraser reaches 0 from 0, not from 20
Points == {0, 20}

\* the strokes a remote update may carry
RemoteStrokes == {Stroke("a", 0), Stroke("b", 20)}

\* --- the drawing engine (useWASM().drawingEngine): an indexed stroke store ---

\* the engine object exists once it is loaded
EnginePresent == isLoaded

\* a stroke of the store; tag tells the strokes apart (the call that made it)
WASMStroke(tag, pts) == [tag |-> tag, points |-> pts]

ValidIndex(store, i) == i \in 0..(Len(store) - 1)

\* removeStroke(index)
RemoveAt(store, i) ==
    [j \in 1..(Len(store) - 1) |-> IF j <= i THEN store[j] ELSE store[j + 1]]

\* addPointToStroke(index, point)
AddPointAt(store, i, p) == [store EXCEPT ![i + 1].points = Append(@, p)]

\* moveStroke(index, dx, dy)
MovePoints(pts, dx) == [k \in 1..Len(pts) |-> pts[k] + dx]
MoveAt(store, i, dx) == [store EXCEPT ![i + 1].points = MovePoints(@, dx)]

\* --- whiteboardReducer ---

\* the state keeps the old strokes and adds the payload to them
ReduceSetStrokes_merge(st, payload) == [st EXCEPT !.strokes = @ \o payload]

\* case 'SET_STROKES'
ReduceSetStrokes(st, payload) == [st EXCEPT !.strokes = SetStrokes(payload)]

whiteboardReducer(st, action) ==
    CASE action.type = "SET_CURRENT_STROKE" -> [st EXCEPT !.currentStroke = action.payload]
      [] action.type = "SET_STROKES" -> ReduceSetStrokes(st, action.payload)
      [] action.type = "SET_SELECTED_STROKES" -> [st EXCEPT !.selectedStrokes = action.payload]
      [] action.type = "TRIGGER_STROKE_UPDATE" -> [st EXCEPT !.strokeUpdateTrigger = @ + 1]
      [] action.type = "CLEAR_CANVAS" ->
            [st EXCEPT !.strokes = <<>>, !.selectedStrokes = {}, !.currentStroke = NoStroke]
      [] OTHER -> st

TriggerStrokeUpdate == [type |-> "TRIGGER_STROKE_UPDATE"]
SetCurrentStroke(s) == [type |-> "SET_CURRENT_STROKE", payload |-> s]

\* wasmStrokeToReact: points, color as text, thickness
wasmStrokeToReact(s) == [points |-> s.points, color |-> "rgb(0, 0, 0)", thickness |-> 2]

\* syncStrokesFromWasm
syncStrokesFromWasm(st) ==
    IF ~isLoaded THEN st
    ELSE ReduceSetStrokes(st, [i \in 1..Len(wasm) |-> wasmStrokeToReact(wasm[i])])

\* --- the provider's operations; each reads the state of the last render ---

\* one more call of an operation
Called(name, arg) ==
    /\ op.seq < MaxOps
    /\ op' = [name |-> name, seq |-> op.seq + 1, arg |-> arg]

\* startDrawing, up to its await
StartDrawing(p) ==
    /\ Called("startDrawing", <<p>>)
    /\ tasks' = IF ~isLoaded THEN tasks
                ELSE tasks \cup {[kind |-> "startDrawing", seq |-> op.seq + 1, point |-> p,
                                  settings |-> rendered.settings]}
    /\ UNCHANGED <<state, rendered, isLoaded, wasm>>
    /\ UNCHANGED netVars

\* startDrawing, after its await
StartDrawingResume(t) ==
    /\ t \in tasks /\ t.kind = "startDrawing"
    /\ tasks' = tasks \ {t}
    /\ wasm' = Append(wasm, WASMStroke(t.seq, <<t.point>>))
    /\ state' = whiteboardReducer(whiteboardReducer(state, TriggerStrokeUpdate),
                    SetCurrentStroke([points |-> <<t.point>>, color |-> t.settings.color,
                                      thickness |-> t.settings.thickness]))
    /\ UNCHANGED <<rendered, isLoaded, op>>
    /\ UNCHANGED netVars

\* continueDrawing (its await comes at every 10th point only)
ContinueDrawing(p) ==
    /\ Called("continueDrawing", <<p>>)
    /\ IF ~isLoaded \/ rendered.currentStroke = NoStroke \/ Len(wasm) = 0
         THEN UNCHANGED <<state, wasm>>
         ELSE /\ wasm' = AddPointAt(wasm, Len(wasm) - 1, p)
              /\ state' = whiteboardReducer(whiteboardReducer(state, TriggerStrokeUpdate),
                    SetCurrentStroke([rendered.currentStroke EXCEPT !.points = Append(@, p)]))
    /\ UNCHANGED <<rendered, isLoaded, tasks>>
    /\ UNCHANGED netVars

\* finishDrawing
FinishDrawing ==
    /\ Called("finishDrawing", <<>>)
    /\ IF rendered.currentStroke # NoStroke /\ EnginePresent /\ Len(wasm) > 0
         THEN /\ wasm' = AddPointAt(wasm, Len(wasm) - 1,
                    rendered.currentStroke.points[Len(rendered.currentStroke.points)])
              /\ state' = whiteboardReducer(whiteboardReducer(state, TriggerStrokeUpdate),
                                            SetCurrentStroke(NoStroke))
         ELSE /\ wasm' = wasm
              /\ state' = whiteboardReducer(state, SetCurrentStroke(NoStroke))
    /\ UNCHANGED <<rendered, isLoaded, tasks>>
    /\ UNCHANGED netVars

\* addStroke of the provider
AddStroke(s) ==
    /\ Called("addStroke", <<s>>)
    /\ state' = whiteboardReducer(state,
                    [type |-> "SET_STROKES", payload |-> Append(rendered.strokes, s)])
    /\ UNCHANGED <<rendered, isLoaded, wasm, tasks>>
    /\ UNCHANGED netVars

\* setAllStrokes of the provider
SetAllStrokes(ss) ==
    /\ Called("setAllStrokes", ss)
    /\ state' = whiteboardReducer(state, [type |-> "SET_STROKES", payload |-> ss])
    /\ UNCHANGED <<rendered, isLoaded, wasm, tasks>>
    /\ UNCHANGED netVars

\* the collision test of eraseAtPoint
Distance(p, q) == IF p >= q THEN p - q ELSE q - p
IsNear(s, p, size) == \E k \in 1..Len(s.points) : Distance(p, s.points[k]) <= size
NearIndices(store, p, size) ==
    {i \in 0..(Len(store) - 1) : IsNear(wasmStrokeToReact(store[i + 1]), p, size)}
Highest(S) == CHOOSE i \in S : \A j \in S : j <= i

\* eraseAtPoint, up to its await
EraseAtPoint(p) ==
    /\ Called("eraseAtPoint", <<p>>)
    /\ LET near == NearIndices(wasm, p, rendered.settings.eraserSize) IN
         tasks' = IF ~isLoaded \/ near = {} THEN tasks
                  ELSE tasks \cup {[kind |-> "eraseAtPoint", seq |-> op.seq + 1,
                                    index |-> Highest(near),
                                    chosen |-> wasm[Highest(near) + 1].tag]}
    /\ UNCHANGED <<state, rendered, isLoaded, wasm>>
    /\ UNCHANGED netVars

\* eraseAtPoint, after its await: removeStroke(i) throws on an index out of range
EraseAtPointResume(t) ==
    /\ t \in tasks /\ t.kind = "eraseAtPoint"
    /\ tasks' = tasks \ {t}
    /\ IF ValidIndex(wasm, t.index)
         THEN /\ wasm' = RemoveAt(wasm, t.index)
              /\ state' = whiteboardReducer(state, TriggerStrokeUpdate)
         ELSE UNCHANGED <<wasm, state>>
    /\ UNCHANGED <<rendered, isLoaded, op>>
    /\ UNCHANGED netVars

\* selectStrokes
SelectStrokes(indices) ==
    /\ Called("selectStrokes", <<indices>>)
    /\ state' = whiteboardReducer(state, [type |-> "SET_SELECTED_STROKES", payload |-> indices])
    /\ UNCHANGED <<rendered, isLoaded, wasm, tasks>>
    /\ UNCHANGED netVars

\* the store after moveStroke on every index of a set of valid indices
MoveAll(store, S, dx) ==
    [j \in 1..Len(store) |->
        IF (j - 1) \in S THEN [store[j] EXCEPT !.points = MovePoints(@, dx)] ELSE store[j]]

\* moveSelectedStrokes: moveStroke throws on an index out of range, which ends the
\* forEach wherever it has got to
MoveSelectedStrokes(dx) ==
    /\ Called("moveSelectedStrokes", <<dx>>)
    /\ LET sel == rendered.selectedStrokes
           valid == {i \in sel : ValidIndex(wasm, i)}
       IN  IF ~isLoaded THEN UNCHANGED <<state, wasm>>
           ELSE IF valid = sel
             THEN /\ wasm' = MoveAll(wasm, sel, dx)
                  /\ state' = whiteboardReducer(state, TriggerStrokeUpdate)
             ELSE /\ \E done \in SUBSET valid : wasm' = MoveAll(wasm, done, dx)
                  /\ state' = state
    /\ UNCHANGED <<rendered, isLoaded, tasks>>
    /\ UNCHANGED netVars

\* the indices in ascending order
RECURSIVE Ascending(_)
Ascending(S) ==
    IF S = {} THEN <<>>
    ELSE LET m == CHOOSE i \in S : \A j \in S : i <= j IN <<m>> \o Ascending(S \ {m})

\* the indices are removed lowest first
RemovalOrder_ascending(S) == Ascending(S)

\* Array.from(selectedStrokes).sort((a, b) => b - a)
RemovalOrder(S) ==
    LET asc == Ascending(S) IN [k \in 1..Len(asc) |-> asc[Len(asc) + 1 - k]]

\* indicesToRemove.forEach(removeStroke): the store after it, and whether it threw
RECURSIVE RemoveEach(_, _)
RemoveEach(store, order) ==
    IF order = <<>> THEN [store |-> store, threw |-> FALSE]
    ELSE IF ~ValidIndex(store, Head(order)) THEN [store |-> store, threw |-> TRUE]
    ELSE RemoveEach(RemoveAt(store, Head(order)), Tail(order))

\* deleteSelectedStrokes: nothing catches what removeStroke throws
DeleteSelectedStrokes ==
    /\ Called("deleteSelectedStrokes", <<rendered.selectedStrokes>>)
    /\ LET res == RemoveEach(wasm, RemovalOrder(rendered.selectedStrokes)) IN
         IF ~isLoaded THEN UNCHANGED <<state, wasm>>
         ELSE /\ wasm' = res.store
              /\ state' = IF res.threw THEN state
                          ELSE whiteboardReducer(
                                 whiteboardReducer(state,
                                    [type |-> "SET_SELECTED_STROKES", payload |-> {}]),
                                 TriggerStrokeUpdate)
    /\ UNCHANGED <<rendered, isLoaded, tasks>>
    /\ UNCHANGED netVars

\* CLEAR_CANVAS is dispatched whether or not there is an engine
ClearCanvas_unguarded ==
    /\ Called("clearCanvas", <<>>)
    /\ wasm' = <<>>
    /\ state' = whiteboardReducer(state, [type |-> "CLEAR_CANVAS"])
    /\ UNCHANGED <<rendered, isLoaded, tasks>>
    /\ UNCHANGED netVars

\* clearCanvas
ClearCanvas ==
    /\ Called("clearCanvas", <<>>)
    /\ IF EnginePresent
         THEN /\ wasm' = <<>>
              /\ state' = whiteboardReducer(state, [type |-> "CLEAR_CANVAS"])
         ELSE UNCHANGED <<state, wasm>>
    /\ UNCHANGED <<rendered, isLoaded, tasks>>
    /\ UNCHANGED netVars

\* the engine finishes loading
Load ==
    /\ ~isLoaded
    /\ isLoaded' = TRUE
    /\ UNCHANGED <<state, rendered, wasm, tasks, op>>
    /\ UNCHANGED netVars

\* the provider re-renders: its callbacks capture the state, and the effect on
\* strokeUpdateTrigger runs syncStrokesFromWasm when the trigger has changed
RenderProvider ==
    /\ rendered # state
    /\ rendered' = state
    /\ state' = IF state.strokeUpdateTrigger # rendered.strokeUpdateTrigger
                   /\ state.strokeUpdateTrigger > 0
                  THEN syncStrokesFromWasm(state) ELSE state
    /\ UNCHANGED <<isLoaded, wasm, tasks, op>>
    /\ UNCHANGED netVars

(* ---------------------------- specification --------------------------- *)

Next ==
    \/ \E c \in Clients : Connection(c)
    \/ \E c \in Clients, data \in ClientFrames : OnMessage(c, data)
    \/ \E c \in Clients : Closing(c)
    \/ \E c \in Clients : Closed(c)
    \/ \E c \in Clients : ClientOnMessage(c)
    \/ \E c \in Clients : Render(c)

Spec == Init /\ [][Next]_vars

\* the relay and its sessions alone: no client handles what it is sent
NextRelay ==
    \/ \E c \in Clients : Connection(c)
    \/ \E c \in Clients, data \in ClientFrames : OnMessage(c, data)
    \/ \E c \in Clients : Closing(c)
    \/ \E c \in Clients : Closed(c)

SpecRelay == Init /\ [][NextRelay]_vars

\* the relay when clients also send JSON that is no message of the union
NextFrames ==
    \/ NextRelay
    \/ \E c \in Clients, data \in IllFormedFrames : OnMessage(c, data)

SpecFrames == Init /\ [][NextFrames]_vars

\* one provider, its engine and the remote updates it is given
NextBoard ==
    \/ Load
    \/ RenderProvider
    \/ \E p \in Points : StartDrawing(p)
    \/ \E t \in tasks : StartDrawingResume(t)
    \/ ContinueDrawing(20)
    \/ FinishDrawing
    \/ \E s \in RemoteStrokes : AddStroke(s)
    \/ \E ss \in {<<>>, <<Stroke("b", 20)>>} : SetAllStrokes(ss)
    \/ \E p \in Points : EraseAtPoint(p)
    \/ \E t \in tasks : EraseAtPointResume(t)
    \/ \E S \in {{0}, {0, 1}} : SelectStrokes(S)
    \/ MoveSelectedStrokes(20)
    \/ DeleteSelectedStrokes
    \/ ClearCanvas

SpecBoard == Init /\ [][NextBoard]_vars

(* ------------------------------ properties ---------------------------- *)

\* this step is the handling of one 'message' event, Event is that event
Handled == Len(arrived') = Len(arrived) + 1
Event == arrived'[Len(arrived')]
EventMsg == Event.data.val

\* session c was connected by this step
Connected(c) == readyState[c] = "CLOSED" /\ readyState'[c] = "OPEN"

\* C1: a session connected in any relay state is sent exactly two frames, a
\* board:sync whose strokes are the relay's strokes at that moment and a chat:sync
\* whose chatHistory is the relay's chatHistory at that moment, element for element.
C1_SnapshotOnConnect ==
    [][\A c \in Clients : Connected(c) =>
          sent'[c] = <<Text(BoardSync(strokes)), Text(ChatSync(chatHistory))>>]_vars

\* C1 witness: a session joined late and holds a snapshot with a stroke and a chat entry
C1_Witness ==
    \E c \in Clients :
        /\ readyState[c] = "OPEN" /\ joinedAt[c] = 2 /\ Len(sent[c]) = 2
        /\ sent[c][1].val.payload.strokes = <<Stroke("a", 0)>>
        /\ Len(sent[c][2].val.payload.chatHistory) = 1

\* C2: a message that parsed is appended exactly once to what every session that is
\* OPEN when it is handled has been sent, the sender's included, and what the
\* sessions that are not OPEN have been sent is unchanged.
C2_FanOutWithEcho ==
    [][(Handled /\ Event.data.json) =>
          /\ readyState[Event.from] = "OPEN"
          /\ \A c \in Clients :
                sent'[c] = IF readyState[c] = "OPEN"
                             THEN Append(sent[c], Event.data) ELSE sent[c]]_vars

\* C2 witness: the sender of a chat:message holds its echo once, while a session
\* that was closing when the message was handled holds only its snapshot
C2_Witness ==
    \E c, d \in Clients :
        /\ Len(arrived) = 1 /\ arrived[1].from = c
        /\ arrived[1].data = Text(ChatMessage("u1", "hi"))
        /\ readyState[c] = "OPEN" /\ joinedAt[c] = 0
        /\ Len(sent[c]) = 3 /\ sent[c][3] = arrived[1].data
        /\ readyState[d] = "CLOSING" /\ joinedAt[d] = 0 /\ Len(sent[d]) = 2

\* C3 (as claimed): no frame ever sent to a session carries a type outside the
\* protocol's tags, and a message of such a type changes neither array.
C3_UnrecognizedDiscarded ==
    [][(Handled /\ Event.data.json /\ TypeOf(EventMsg) \notin RecognizedTypes) =>
          /\ sent' = sent
          /\ strokes' = strokes
          /\ chatHistory' = chatHistory]_vars

\* C4: a frame that is not JSON changes nothing: the sessions' states, the two
\* arrays and what every session has been sent are as before, and no frame any
\* session has been sent is that frame.
C4_MalformedDropped ==
    [][(Handled /\ Event.data = NotJson) =>
          /\ readyState' = readyState
          /\ readyState'[Event.from] = "OPEN"
          /\ up' = up
          /\ strokes' = strokes
          /\ chatHistory' = chatHistory
          /\ sent' = sent
          /\ \A c \in Clients : \A i \in 1..Len(sent'[c]) : sent'[c][i] # NotJson]_vars

\* C4 witness: a malformed frame was handled, then a stroke:add of the same session
\* was handled and echoed to it
C4_Witness ==
    \E c \in Clients :
        /\ Len(arrived) = 2 /\ arrived[1] = [from |-> c, data |-> NotJson]
        /\ arrived[2].from = c
        /\ readyState[c] = "OPEN" /\ joinedAt[c] = 0
        /\ sent[c] = Snapshot(<<>>, <<>>) \o <<Text(StrokeAdd(Stroke("a", 0)))>>

\* the strokes of the stroke:add messages of a log of events, in the log's order
AddsIn(log) ==
    SelectSeq(log, LAMBDA e : e.data.json /\ TypeOf(e.data.val) = "stroke:add")
StrokesSent(log) == [i \in 1..Len(AddsIn(log)) |-> AddsIn(log)[i].data.val.payload.stroke]

\* C5: the relay's strokes are exactly the strokes of the stroke:add messages it
\* has handled, one per message, in the order it received them (whichever clients
\* sent them, and whatever other messages came in between).
C5_AddsInReceiptOrder == strokes = StrokesSent(arrived)

\* C5 witness: two stroke:add messages of two clients, b's before a's
C5_Witness ==
    /\ Len(arrived) = 2 /\ arrived[1].from # arrived[2].from
    /\ strokes = <<Stroke("b", 0), Stroke("a", 0)>>

BoardTypes == {"stroke:add", "stroke:remove", "stroke:move", "board:clear"}

\* every event so far is one of the four board messages, at most one a stroke:add
BoardMessagesOneAdd ==
    /\ \A i \in 1..Len(arrived) :
          arrived[i].data.json /\ TypeOf(arrived[i].data.val) \in BoardTypes
    /\ Len(AddsIn(arrived)) <= 1

\* C6 (as claimed): a client that has applied its board:sync and every frame sent
\* to it since holds the relay's strokes, in content and order, whatever board
\* messages the relay has handled. Stated for the runs with at most one
\* stroke:add, where the client appends at most once.
C6_ClientConverges ==
    \A c \in Clients :
        (/\ BoardMessagesOneAdd
         /\ readyState[c] = "OPEN"
         /\ Len(sent[c]) >= 2
         /\ applied[c] = Len(sent[c])) => cStrokes[c] = strokes

\* C7 (as claimed): after stroke:add of stroke a and stroke:remove of a the relay's
\* strokes are empty, and so is the board:sync of a session that connects then.
C7_AddThenRemoveLeavesEmpty ==
    (/\ Len(arrived) = 2
     /\ arrived[1].data = Text(StrokeAdd(Stroke("a", 0)))
     /\ arrived[2].data = Text(StrokeRemove("a")))
    => /\ strokes = <<>>
       /\ \A c \in Clients :
             (readyState[c] = "OPEN" /\ joinedAt[c] = 2) =>
                 sent[c][1].val.payload.strokes = <<>>

\* C8: handling stroke:remove, stroke:move, board:clear or user:join leaves strokes
\* and chatHistory as they were, stroke:add leaves chatHistory as it was and
\* chat:message leaves strokes as they were; no session is opened or closed by it.
C8_NoMutationButAddAndChat ==
    [][(Handled /\ Event.data.json) =>
          /\ TypeOf(EventMsg) \in {"stroke:remove", "stroke:move", "board:clear", "user:join"}
                => (strokes' = strokes /\ chatHistory' = chatHistory)
          /\ TypeOf(EventMsg) = "stroke:add" => chatHistory' = chatHistory
          /\ TypeOf(EventMsg) = "chat:message" => strokes' = strokes
          /\ readyState' = readyState
          /\ up' = up]_vars

\* C8 witness: stroke:remove of a was handled while the relay held stroke a, and
\* the relay still holds it
C8_Witness ==
    /\ Len(arrived) = 2
    /\ arrived[1].data = Text(StrokeAdd(Stroke("a", 0)))
    /\ arrived[2].data = Text(StrokeRemove("a"))
    /\ strokes = <<Stroke("a", 0)>>

\* the ids a client's collection holds
IdsOf(ss) == {ss[i].id : i \in 1..Len(ss)}

\* client c handles, in this step, a stroke:add of a stroke whose id it holds
AppliesHeldAdd(c) ==
    /\ applied'[c] = applied[c] + 1
    /\ sent[c][applied'[c]].val.type = "stroke:add"
    /\ sent[c][applied'[c]].val.payload.stroke.id \in IdsOf(cStrokes[c])

\* C9 (as claimed): applying a stroke:add of a stroke whose id the client's
\* collection already holds leaves the collection unchanged, so it never holds
\* two strokes of one id.
C9_AddIsIdempotent ==
    [][\A c \in Clients : AppliesHeldAdd(c) => cStrokes'[c] = cStrokes[c]]_vars

\* the entries of the chat:message messages of a log of events, in the log's order
ChatsIn(log) ==
    SelectSeq(log, LAMBDA e : e.data.json /\ TypeOf(e.data.val) = "chat:message")
ChatsSent(log) == [i \in 1..Len(ChatsIn(log)) |-> ChatsIn(log)[i].data.val.payload]

\* the frames of the events of a log that parsed, in the log's order
ParsedIn(log) == SelectSeq(log, LAMBDA e : e.data.json)
Relayed(log) == [i \in 1..Len(ParsedIn(log)) |-> ParsedIn(log)[i].data]

\* C10: what a session has been sent after its snapshot is, in arrival order, the
\* messages that parsed since it connected: all of them while it is OPEN, a prefix
\* of them once it is not; and between two events both arrays hold the effect of
\* every event handled so far.
C10_BroadcastOrderIsArrivalOrder ==
    /\ strokes = StrokesSent(arrived)
    /\ chatHistory = ChatsSent(arrived)
    /\ \A c \in Clients :
          Len(sent[c]) >= 2 =>
             LET got == SubSeq(sent[c], 3, Len(sent[c]))
                 since == Relayed(SubSeq(arrived, joinedAt[c] + 1, Len(arrived)))
             IN  /\ Len(got) <= Len(since)
                 /\ got = SubSeq(since, 1, Len(got))
                 /\ readyState[c] = "OPEN" => got = since

\* C10 witness: two sessions were sent the same two different messages in one order
C10_Witness ==
    \E c, d \in Clients :
        /\ c # d
        /\ Len(sent[c]) = 4 /\ sent[c][3] # sent[c][4]
        /\ sent[c][3] = arrived[1].data /\ sent[c][4] = arrived[2].data
        /\ sent[d] = sent[c]

\* the events a session's connection came after, and those that came after it
Before(c) == SubSeq(arrived, 1, joinedAt[c])
Since(c) == SubSeq(arrived, joinedAt[c] + 1, Len(arrived))

\* C11: the first two frames sent to a session are a board:sync and then a
\* chat:sync that hold the effect of exactly the events handled before it
\* connected, and the frames sent to it after them are exactly the messages
\* handled since; so a message is in the snapshot or sent afterwards, never both
\* and never neither.
C11_ConnectOrdering ==
    \A c \in Clients :
        sent[c] # <<>> =>
            /\ Len(sent[c]) >= 2
            /\ sent[c][1] = Text(BoardSync(StrokesSent(Before(c))))
            /\ sent[c][2] = Text(ChatSync(ChatsSent(Before(c))))
            /\ readyState[c] = "OPEN" =>
                  SubSeq(sent[c], 3, Len(sent[c])) = Relayed(Since(c))

\* C11 witness: a session connected between two stroke:add messages: the first is
\* in its snapshot, the second was sent to it after the snapshot
C11_Witness ==
    \E c \in Clients :
        /\ readyState[c] = "OPEN" /\ joinedAt[c] = 1 /\ Len(arrived) = 2
        /\ sent[c] = <<Text(BoardSync(<<Stroke("a", 0)>>)), Text(ChatSync(<<>>)),
                       Text(StrokeAdd(Stroke("b", 0)))>>

\* C12 (as claimed): after its two snapshot frames a session is never sent a
\* board:sync or a chat:sync, whatever frames clients send.
C12_SyncOnlyAtConnect ==
    \A c \in Clients :
        \A i \in 3..Len(sent[c]) :
            TypeOf(sent[c][i].val) \notin {"board:sync", "chat:sync"}

\* C14: chatHistory changes only when a chat:message is handled, and then by that
\* message's payload appended at its end; so every earlier chatHistory is a prefix
\* of every later one.
C14_ChatAppendOnly ==
    [][chatHistory' =
          IF Handled /\ Event.data.json /\ TypeOf(EventMsg) = "chat:message"
            THEN Append(chatHistory, EventMsg.payload)
            ELSE chatHistory]_vars

\* C14 witness: two chat entries of two clients are held in arrival order
C14_Witness ==
    /\ Len(arrived) = 2 /\ arrived[1].from # arrived[2].from
    /\ Len(chatHistory) = 2
    /\ chatHistory = ChatsSent(arrived)

\* C15: a step that connects or disconnects a session leaves strokes and
\* chatHistory as they were; what a client sent stays after it has gone.
C15_SessionOwnsNoData ==
    [][(readyState' # readyState) =>
          (strokes' = strokes /\ chatHistory' = chatHistory)]_vars

\* C15 witness: the sender of a stroke and of a chat entry has disconnected, and a
\* session that connected afterwards holds both in its snapshot
C15_Witness ==
    \E c, d \in Clients :
        /\ c # d
        /\ Len(arrived) = 2 /\ arrived[1].from = c /\ arrived[2].from = c
        /\ readyState[c] = "CLOSED"
        /\ strokes = <<Stroke("a", 0)>> /\ Len(chatHistory) = 1
        /\ readyState[d] = "OPEN" /\ joinedAt[d] = 2
        /\ sent[d] = <<Text(BoardSync(strokes)), Text(ChatSync(chatHistory))>>

\* the frames clients have sent to the relay so far
FramesArrived == {arrived[j].data : j \in 1..Len(arrived)}

\* C17: the first two frames sent to a session are a board:sync and a chat:sync,
\* and every frame sent to it after them is a frame some client sent to the relay
\* before, unmodified.
C17_OnlySnapshotsAndCopies ==
    \A c \in Clients :
        \A i \in 1..Len(sent[c]) :
            CASE i = 1 -> TypeOf(sent[c][i].val) = "board:sync"
              [] i = 2 -> TypeOf(sent[c][i].val) = "chat:sync"
              [] OTHER -> sent[c][i] \in FramesArrived

\* C17 witness: a session holds its two snapshots and the copy of an unknown-type
\* message another client sent
C17_Witness ==
    \E c \in Clients :
        /\ Len(sent[c]) = 3 /\ Len(arrived) = 1 /\ arrived[1].from # c
        /\ sent[c][3] = arrived[1].data
        /\ TypeOf(sent[c][3].val) = "foo"

\* C18 (as claimed): handling a frame that is JSON but no well-formed message adds
\* nothing to strokes or chatHistory and ends without an unhandled error: the
\* relay runs on and its sessions stay as they were.
C18_IllFormedChangesNothing ==
    [][(Handled /\ Event.data \in IllFormedFrames) =>
          /\ strokes' = strokes
          /\ chatHistory' = chatHistory
          /\ up'
          /\ readyState' = readyState]_vars

\* an operation of the provider is called in this step
Calls(name) == op' # op /\ op'.name = name

\* C13: after setAllStrokes(S) the stroke collection is S, whatever it held before,
\* and the selection, the current stroke, the tool and the settings are as they were.
C13_SetAllStrokesReplaces ==
    [][Calls("setAllStrokes") =>
          /\ state'.strokes = op'.arg
          /\ state'.selectedStrokes = state.selectedStrokes
          /\ state'.currentStroke = state.currentStroke
          /\ state'.activeTool = state.activeTool
          /\ state'.settings = state.settings
          /\ state'.strokeUpdateTrigger = state.strokeUpdateTrigger]_vars

\* C13 witness: a provider that showed another, non-empty collection and has a
\* selection and a current stroke was given the snapshot [b] and holds exactly it
C13_Witness ==
    /\ op.name = "setAllStrokes" /\ op.arg = <<Stroke("b", 20)>>
    /\ rendered.strokes # <<>> /\ rendered.strokes # op.arg
    /\ state.strokes = op.arg
    /\ state.selectedStrokes # {} /\ state.currentStroke # NoStroke

\* the local operations that work on the engine
LocalOperations ==
    {"startDrawing", "continueDrawing", "finishDrawing", "eraseAtPoint",
     "moveSelectedStrokes", "deleteSelectedStrokes", "clearCanvas"}

Without(store, S) ==
    LET keep == Ascending((0..(Len(store) - 1)) \ S)
    IN  [k \in 1..Len(keep) |-> store[keep[k] + 1]]

\* C19: deleteSelectedStrokes with the engine loaded and every selected index valid
\* removes exactly the strokes at the selected indices, keeps the others in their
\* order and empties the selection.
C19_DeleteRemovesSelected ==
    [][(/\ Calls("deleteSelectedStrokes")
        /\ isLoaded
        /\ \A i \in rendered.selectedStrokes : ValidIndex(wasm, i)) =>
          /\ wasm' = Without(wasm, rendered.selectedStrokes)
          /\ state'.selectedStrokes = {}]_vars

\* C19 witness: of two strokes the one at index 0 was selected and deleted; the
\* second one drawn is what the engine holds, and nothing is selected
C19_Witness ==
    /\ op.name = "deleteSelectedStrokes" /\ op.arg = <<{0}>>
    /\ Len(wasm) = 1 /\ wasm[1].tag = 2
    /\ state.selectedStrokes = {}

Tags(store) == {store[i].tag : i \in 1..Len(store)}

\* C20 (as claimed): when eraseAtPoint goes on after its await, the only stroke that
\* leaves the engine is the one its collision test chose.
C20_ErasesTheChosenStroke ==
    [][\A t \in tasks :
          (t.kind = "eraseAtPoint" /\ tasks' = tasks \ {t}) =>
              Tags(wasm) \ Tags(wasm') \subseteq {t.chosen}]_vars

\* C21 (as claimed): every call of addStroke leaves the state's strokes as they were
\* with the new stroke appended, also when the provider has not rendered since
\* the call before.
C21_NoLostRemoteAdd ==
    [][Calls("addStroke") => state'.strokes = Append(state.strokes, op'.arg[1])]_vars

\* the strokes a collection holds
Held(ss) == {ss[i] : i \in 1..Len(ss)}

\* C22 (as claimed): a remote stroke held in the state's strokes is still held after
\* every step that is no remote update and no clearCanvas: the local drawing
\* operations, their continuations and the refresh from the engine keep it.
C22_RemoteStrokesSurvive ==
    [][(~Calls("addStroke") /\ ~Calls("setAllStrokes") /\ ~Calls("clearCanvas")) =>
          \A s \in RemoteStrokes : s \in Held(state.strokes) => s \in Held(state'.strokes)]_vars

====
